---- MODULE Spec2Model ----
(***************************************************************************)
(* A model of src/run/src/index.ts: setup(), run() (replicateMany) and the *)
(* dispose function, together with the streams they act on.                *)
(*                                                                         *)
(* The program is single-threaded.  pc says which external call the one    *)
(* call stack is inside of (a driver, main, a sink's subscribe, a proxy    *)
(* injection, a source's dispose, an unsubscribe) or that it is idle.  One *)
(* action runs the code from the return of that call up to and into the    *)
(* next external call.  What external code does while the program is       *)
(* inside such a call (a sink emitting, a driver adding a listener to its  *)
(* proxy) are the actions SinkEmit and DriverSubscribe.                    *)
(***************************************************************************)
EXTENDS Naturals, Sequences, FiniteSets, TLC

\* ---------------------------------------------------------------- bounds
MaxEmit == 2      \* events all sinks together emit
MaxCalls == 3     \* calls of program.run() and of dispose functions together

\* ---------------------------------------------------------------- inputs
\* "constructor" names a member every object literal inherits from
\* Object.prototype.
ObjectPrototypeKeys == {"constructor"}
\* What a driver returns: a non-object, an object without and with a dispose
\* method, a stream with shamefullySendNext.
SourceKinds == {"primitive", "object", "disposable", "stream"}
\* The arguments of setup(): drivers is the keys of the drivers object in
\* insertion order, kinds what each driver returns when called, sinks the keys
\* of the object main returns, in insertion order, listens the drivers that
\* at some time add a listener to their proxy.  "C" and "constructor" name no
\* driver.
Programs ==
  { [drivers |-> <<>>, kinds |-> <<>>, sinks |-> <<"A">>, listens |-> {}],
    [drivers |-> <<"A">>, kinds |-> [A |-> "disposable"], sinks |-> <<"A">>,
     listens |-> {"A"}],
    [drivers |-> <<"A", "B">>, kinds |-> [A |-> "primitive", B |-> "disposable"],
     sinks |-> <<"A", "B">>, listens |-> {"A"}],
    [drivers |-> <<"A", "B">>, kinds |-> [A |-> "stream", B |-> "object"],
     sinks |-> <<"A">>, listens |-> {"A", "B"}],
    [drivers |-> <<"A">>, kinds |-> [A |-> "object"], sinks |-> <<"C", "A">>,
     listens |-> {"A"}],
    [drivers |-> <<"A">>, kinds |-> [A |-> "disposable"],
     sinks |-> <<"constructor", "A">>, listens |-> {"A"}],
    [drivers |-> <<"A", "B">>, kinds |-> [A |-> "object", B |-> "object"],
     sinks |-> <<"constructor", "A", "B">>, listens |-> {}] }
EventKinds == {"n", "e", "c"}

VARIABLES
  mainArg,      \* TRUE iff typeof main === 'function'
  driversArg,   \* "object", "null" or "number": what typeof/null test sees
  drivers,      \* keys of the drivers object
  mainSinks,    \* the keys of the object main returns
  driverKinds,  \* driver name -> the kind of source the driver returns
  driverListens,\* the drivers that add a listener to their proxy
  pc,           \* the external call the program is inside of, or idle
  program,      \* "none", "threw" (setup threw), "ok" (setup returned)
  setupError,   \* which throw ended setup
  sinkProxies,  \* name -> MemoryStream
  sources,      \* name -> source
  sinks,        \* keys of the sinks object of the program
  driverCalls,  \* the driver invocations, in order
  mainCalls,    \* number of invocations of main
  session,      \* per run() call: "none", "running", "returned", "threw"
  sinkNames,    \* per session: the filtered sink names
  buffers,      \* per session: name -> [_n, _e], or <<>> once set to null
  replicators,  \* per session: name -> handlers
  subscriptions,\* per session: one flag per subscription, TRUE while subscribed
  received,     \* per session: name -> events the sink handed to the replicator
  emissions,    \* the events the sinks produced so far, in order, each with
                \* when it was produced: inside main, after which dispose
                \* calls, inside which run(), inside the subscribe call to
                \* which sink
  ended,        \* the sinks that emitted an error or their completion
  console,      \* errors written by logToConsoleError
  disposeLog    \* the external calls made by dispose calls, in order

vars == << mainArg, driversArg, drivers, mainSinks, driverKinds,
           driverListens, pc, program, setupError,
           sinkProxies, sources, sinks, driverCalls, mainCalls, session,
           sinkNames, buffers, replicators, subscriptions, received, emissions,
           ended, console, disposeLog >>

inputVars ==
  << mainArg, driversArg, drivers, mainSinks, driverKinds, driverListens >>
setupVars == << sources, sinks, driverCalls, mainCalls, setupError >>
sessionVars == << session, sinkNames, buffers, replicators, subscriptions >>

Sessions == 1..MaxCalls

\* x: code outside the program (a producer, a listener, a dispose method) runs
\* inside the call.
Idle ==
  [op |-> "idle", ph |-> "", s |-> 0, i |-> 0, k |-> 0, len |-> 0, x |-> TRUE]

At(op, ph, s, i, k, len) ==
  [op |-> op, ph |-> ph, s |-> s, i |-> i, k |-> k, len |-> len, x |-> TRUE]

Range(q) == { q[j] : j \in 1..Len(q) }

\* The calls of run() and of dispose functions made so far.
RunCalls == Cardinality({ s \in Sessions : session[s] # "none" })
DisposeCalls == Len(SelectSeq(disposeLog, LAMBDA e : e.op = "dispose"))
\* The sessions whose dispose function has been called and has ended.
Disposed ==
  { s \in Sessions : \E j \in 1..Len(disposeLog) :
       disposeLog[j].s = s /\ disposeLog[j].op \in {"return", "throw"} }

\* ------------------------------------------------------- MemoryStream
\* xs.createWithMemory(): a stream that remembers its last value; none yet,
\* and no listener.  id tells the
\* objects apart; seen is what the driver's listener was handed; log is the
\* calls of _n, _e, _c made on the stream, each with the session making it.
\* xs.create() in the place of xs.createWithMemory(): nothing is remembered.
MutCreate(id) ==
  [id |-> id, remember |-> FALSE, mem |-> <<>>, ils |-> "none", seen |-> <<>>,
   log |-> <<>>, at |-> 0, late |-> FALSE]

createWithMemory(id) ==
  [id |-> id, remember |-> TRUE, mem |-> <<>>, ils |-> "none", seen |-> <<>>,
   log |-> <<>>, at |-> 0, late |-> FALSE]

\* MemoryStream._n: remember the value, hand it to the listener.
ProxyNext(p, v, s) ==
  [p EXCEPT !.mem = IF p.remember THEN <<v>> ELSE <<>>,
            !.seen = IF p.ils = "on" THEN Append(@, [k |-> "n", v |-> v]) ELSE @,
            !.log = Append(@, [k |-> "n", v |-> v, s |-> s])]

\* Stream._e: hand the error to the listener; the stream tears down: the
\* listener is removed and the remembered value forgotten.
ProxyError(p, v, s) ==
  [p EXCEPT !.mem = <<>>,
            !.seen = IF p.ils = "on" THEN Append(@, [k |-> "e", v |-> v]) ELSE @,
            !.ils = IF p.ils = "on" THEN "off" ELSE @,
            !.log = Append(@, [k |-> "e", v |-> v, s |-> s])]

\* Stream._c: as _e, with the completion signal.
ProxyComplete(p, v, s) ==
  [p EXCEPT !.mem = <<>>,
            !.seen = IF p.ils = "on" THEN Append(@, [k |-> "c", v |-> v]) ELSE @,
            !.ils = IF p.ils = "on" THEN "off" ELSE @,
            !.log = Append(@, [k |-> "c", v |-> v, s |-> s])]

\* MemoryStream._add: a new listener is handed the remembered value, if any.
\* at records how many injections preceded the subscription and whether a
\* run() had returned by then.
ProxyAdd(p, late) ==
  [p EXCEPT !.ils = "on",
            !.seen = IF p.mem # <<>> THEN <<[k |-> "n", v |-> p.mem[1]]>> ELSE <<>>,
            !.at = Len(p.log),
            !.late = late]

\* ------------------------------------------------------------- setup
isObjectEmpty(obj) == Len(obj) = 0

RECURSIVE makeSinkProxiesFrom(_, _)
makeSinkProxiesFrom(keys, j) ==
  IF j > Len(keys) THEN <<>>
  ELSE (keys[j] :> createWithMemory(j)) @@ makeSinkProxiesFrom(keys, j + 1)

\* One stream made before the loop and stored under every name.
MutMakeSinkProxiesShared(keys) ==
  [name \in { keys[j] : j \in 1..Len(keys) } |-> createWithMemory(1)]

makeSinkProxies(keys) == makeSinkProxiesFrom(keys, 1)

\* The source a driver returned, tagged with _isCycleSource if it is an object.
Source(kind, name) ==
  [kind |-> kind,
   dispose |-> (kind = "disposable"),
   shamefullySendNext |-> (kind = "stream"),
   _isCycleSource |-> IF kind = "primitive" THEN "" ELSE name,
   adapted |-> FALSE]

\* adapt() of ./adapt: the stream under a richer observer contract.
adapt(src) == [src EXCEPT !.adapted = TRUE]

adaptSources(srcs) ==
  [name \in DOMAIN srcs |->
     IF srcs[name].kind # "primitive" /\ srcs[name].shamefullySendNext
     THEN adapt(srcs[name]) ELSE srcs[name]]

Init ==
  /\ mainArg \in BOOLEAN
  /\ driversArg \in {"object", "null", "number"}
  /\ \E prog \in Programs :
        /\ drivers = prog.drivers
        /\ driverKinds = prog.kinds
        /\ mainSinks = prog.sinks
        /\ driverListens = prog.listens
  /\ pc = Idle
  /\ program = "none"
  /\ setupError = "none"
  /\ sinkProxies = <<>>
  /\ sources = <<>>
  /\ sinks = <<>>
  /\ driverCalls = <<>>
  /\ mainCalls = 0
  /\ session = [s \in Sessions |-> "none"]
  /\ sinkNames = [s \in Sessions |-> <<>>]
  /\ buffers = [s \in Sessions |-> <<>>]
  /\ replicators = [s \in Sessions |-> <<>>]
  /\ subscriptions = [s \in Sessions |-> <<>>]
  /\ received = [s \in Sessions |-> <<>>]
  /\ emissions = <<>>
  /\ ended = {}
  /\ console = <<>>
  /\ disposeLog = <<>>

\* setup() with the check of main made after makeSinkProxies and the call of
\* the first driver.
MutSetupChecksMainLate ==
  /\ pc = Idle /\ program = "none"
  /\ IF driversArg # "object"
     THEN /\ program' = "threw" /\ setupError' = "drivers-type"
          /\ UNCHANGED << pc, sinkProxies, driverCalls >>
     ELSE IF isObjectEmpty(drivers)
     THEN /\ program' = "threw" /\ setupError' = "drivers-empty"
          /\ UNCHANGED << pc, sinkProxies, driverCalls >>
     ELSE /\ sinkProxies' = makeSinkProxies(drivers)
          /\ driverCalls' = << [name |-> drivers[1],
                                proxy |-> sinkProxies'[drivers[1]].id] >>
          /\ IF ~mainArg
             THEN program' = "threw" /\ setupError' = "main" /\ pc' = pc
             ELSE /\ pc' = At("setup", "driver", 0, 1, 0, 0)
                  /\ UNCHANGED << program, setupError >>
  /\ UNCHANGED << inputVars, sources, sinks, mainCalls, sessionVars, received,
                  emissions, ended, console, disposeLog >>

\* setup(), lines 231-246: the three argument checks, makeSinkProxies, and the
\* call of the first driver.
Setup ==
  /\ pc = Idle /\ program = "none"
  /\ IF ~mainArg
     THEN /\ program' = "threw" /\ setupError' = "main"
          /\ UNCHANGED << pc, sinkProxies, driverCalls >>
     ELSE IF driversArg # "object"
     THEN /\ program' = "threw" /\ setupError' = "drivers-type"
          /\ UNCHANGED << pc, sinkProxies, driverCalls >>
     ELSE IF isObjectEmpty(drivers)
     THEN /\ program' = "threw" /\ setupError' = "drivers-empty"
          /\ UNCHANGED << pc, sinkProxies, driverCalls >>
     ELSE /\ sinkProxies' = makeSinkProxies(drivers)
          /\ driverCalls' = << [name |-> drivers[1],
                                proxy |-> sinkProxies'[drivers[1]].id] >>
          /\ pc' = At("setup", "driver", 0, 1, 0, 0)
          /\ UNCHANGED << program, setupError >>
  /\ UNCHANGED << inputVars, sources, sinks, mainCalls, sessionVars, received,
                  emissions, ended, console, disposeLog >>

\* callDrivers, lines 90-97: the driver returns; its source is stored and
\* tagged; the next driver is called, or after the last one adaptSources runs
\* and main is called.
DriverReturn ==
  /\ pc.op = "setup" /\ pc.ph = "driver"
  /\ LET name == drivers[pc.i]
         kind == driverKinds[name]
         srcs == (name :> Source(kind, name)) @@ sources
     IN IF pc.i < Len(drivers)
        THEN /\ sources' = srcs
             /\ driverCalls' = Append(driverCalls,
                                 [name |-> drivers[pc.i + 1],
                                  proxy |-> sinkProxies[drivers[pc.i + 1]].id])
             /\ pc' = At("setup", "driver", 0, pc.i + 1, 0, 0)
             /\ UNCHANGED mainCalls
        ELSE /\ sources' = adaptSources(srcs)
             /\ mainCalls' = mainCalls + 1
             /\ pc' = At("setup", "main", 0, 0, 0, 0)
             /\ UNCHANGED driverCalls
  /\ UNCHANGED << inputVars, program, setupError, sinkProxies, sinks,
                  sessionVars, received, emissions, ended, console, disposeLog >>

\* callDrivers with the call of a driver wrapped in try/catch: the loop goes
\* on to the next driver, and to main, as if the driver had returned.
MutDriverThrowCaught ==
  /\ pc.op = "setup" /\ pc.ph = "driver"
  /\ setupError' = "driver"
  /\ IF pc.i < Len(drivers)
     THEN /\ driverCalls' = Append(driverCalls,
                              [name |-> drivers[pc.i + 1],
                               proxy |-> sinkProxies[drivers[pc.i + 1]].id])
          /\ pc' = At("setup", "driver", 0, pc.i + 1, 0, 0)
          /\ UNCHANGED mainCalls
     ELSE /\ mainCalls' = mainCalls + 1
          /\ pc' = At("setup", "main", 0, 0, 0, 0)
          /\ UNCHANGED driverCalls
  /\ UNCHANGED << inputVars, program, sinkProxies, sources, sinks, sessionVars,
                  received, emissions, ended, console, disposeLog >>

\* A driver throws: nothing in callDrivers or setup catches it.
DriverThrow ==
  /\ pc.op = "setup" /\ pc.ph = "driver"
  /\ program' = "threw" /\ setupError' = "driver"
  /\ pc' = Idle
  /\ UNCHANGED << inputVars, sinkProxies, sources, sinks, driverCalls,
                  mainCalls, sessionVars, received, emissions, ended, console,
                  disposeLog >>

\* setup(), lines 248-261: main returns the sinks; setup returns the program.
MainReturn ==
  /\ pc.op = "setup" /\ pc.ph = "main"
  /\ sinks' = mainSinks
  /\ program' = "ok"
  /\ pc' = Idle
  /\ UNCHANGED << inputVars, setupError, sinkProxies, sources, driverCalls,
                  mainCalls, sessionVars, received, emissions, ended, console,
                  disposeLog >>

\* ------------------------------------------------------- replicateMany
\* !!sinkProxies[name], line 139: an own key holds a MemoryStream; a key of
\* Object.prototype holds an inherited member, truthy too.
hasProxy(P, name) == name \in DOMAIN P \/ name \in ObjectPrototypeKeys

\* Object.keys(sinks).filter(name => !!sinkProxies[name]), line 139.
sinkNamesOf(keys, P) == SelectSeq(keys, LAMBDA name : hasProxy(P, name))

\* A replicator whose complete handler completes the proxy.
MutReplicatorForwardsComplete ==
  [next |-> "buffer", error |-> "buffer", complete |-> "forward",
   _n |-> "unset", _e |-> "unset", _c |-> "unset"]

\* The replicator of lines 145-152; _n, _e, _c are added by subscribe.
Replicator ==
  [next |-> "buffer", error |-> "buffer", complete |-> "noop",
   _n |-> "unset", _e |-> "unset", _c |-> "unset"]

\* The swap of lines 173-174 without lines 177-178: the handlers the sink's
\* stream calls stay the buffering ones.
MutSwappedNextAndErrorOnly(r) == [r EXCEPT !.next = "forward", !.error = "forward"]

\* Lines 173-178: the handlers are replaced by the forwarding ones.
Swapped(r) ==
  [r EXCEPT !.next = "forward", !.error = "forward",
            !._n = "forward", !._e = "forward"]

\* subscribe(replicators[name]), line 157: the stream copies next, error and
\* complete into _n, _e, _c and adds the replicator to its listeners.
Subscribed(r) == [r EXCEPT !._n = r.next, !._e = r.error, !._c = r.complete]

logToConsoleError(c, err) == Append(c, err)

\* The effects of a call are computed on a record st of the variables it may
\* write: b (buffers), p (sinkProxies), c (console), r (received), and t,
\* TRUE once a TypeError was thrown.
StateNow ==
  [b |-> buffers, p |-> sinkProxies, c |-> console, r |-> received, t |-> FALSE]

\* next of line 149 and error of line 150: append to the session's buffer.
\* (Were buffers null already, the property access would throw.)
BufferNext(st, s, name, v) ==
  IF name \in DOMAIN st.b[s]
  THEN [st EXCEPT !.b[s][name]._n = Append(@, v)]
  ELSE [st EXCEPT !.t = TRUE]

BufferError(st, s, name, v) ==
  IF name \in DOMAIN st.b[s]
  THEN [st EXCEPT !.b[s][name]._e = Append(@, v)]
  ELSE [st EXCEPT !.t = TRUE]

\* next of line 166: listener._n(x), where listener is sinkProxies[name]; an
\* inherited member has no _n and the call throws a TypeError.
ForwardNext(st, s, name, v) ==
  IF name \in DOMAIN st.p
  THEN [st EXCEPT !.p[name] = ProxyNext(@, v, s)]
  ELSE [st EXCEPT !.t = TRUE]

\* error of line 167: logToConsoleError(err); listener._e(err).
ForwardError(st, s, name, v) ==
  IF name \in DOMAIN st.p
  THEN [st EXCEPT !.c = logToConsoleError(@, v),
                  !.p[name] = ProxyError(@, v, s)]
  ELSE [st EXCEPT !.c = logToConsoleError(@, v), !.t = TRUE]

\* sinkProxies[name]._c(), line 184.
Complete(st, s, name) ==
  IF name \in DOMAIN st.p
  THEN [st EXCEPT !.p[name] = ProxyComplete(@, 0, s)]
  ELSE [st EXCEPT !.t = TRUE]

\* The sink's stream calls the handler h it holds for an event of kind k.
CallHandler(st, h, k, s, name, v) ==
  CASE h = "buffer" /\ k = "n" -> BufferNext(st, s, name, v)
    [] h = "buffer" /\ k = "e" -> BufferError(st, s, name, v)
    [] h = "forward" /\ k = "n" -> ForwardNext(st, s, name, v)
    [] h = "forward" /\ k = "e" -> ForwardError(st, s, name, v)
    [] h = "forward" /\ k = "c" -> Complete(st, s, name)
    [] OTHER -> st

HandlerOf(r, k) == IF k = "n" THEN r._n ELSE IF k = "e" THEN r._e ELSE r._c

\* The subscription of session s to sink name is in place.
Active(s, name) ==
  \E j \in 1..Len(subscriptions[s]) :
     sinkNames[s][j] = name /\ subscriptions[s][j]

\* A sink hands one event to its listeners, in the order they subscribed; a
\* listener that throws ends the delivery.
RECURSIVE DeliverFrom(_, _, _, _, _)
DeliverFrom(st, s, name, k, v) ==
  IF s > MaxCalls \/ st.t THEN st
  ELSE IF ~Active(s, name) THEN DeliverFrom(st, s + 1, name, k, v)
  ELSE LET got == [st EXCEPT !.r[s][name] =
                     Append(@, [k |-> k, v |-> v,
                                h |-> HandlerOf(replicators[s][name], k)])]
       IN DeliverFrom(CallHandler(got, HandlerOf(replicators[s][name], k),
                                  k, s, name, v),
                      s + 1, name, k, v)

\* A sink of main emits a value, an error or its completion.  It can do so
\* from the moment main runs, also while the program is inside an external
\* call (a listener of a proxy, a subscribe) that makes it emit.
SinkEmit(name, k) ==
  /\ (pc.op = "setup" /\ pc.ph = "main") \/ program = "ok"
  /\ pc.x
  /\ name \in Range(mainSinks)
  /\ Len(emissions) < MaxEmit
  /\ name \notin ended
  /\ emissions' = Append(emissions,
       [name |-> name, k |-> k, v |-> Len(emissions) + 1,
        main |-> (pc.ph = "main"), disposed |-> Disposed,
        run |-> IF pc.op = "run" THEN pc.s ELSE 0,
        subscribing |-> IF pc.ph = "subscribe" THEN sinkNames[pc.s][pc.i] ELSE ""])
  /\ ended' = IF k = "n" THEN ended ELSE ended \cup {name}
  /\ LET st == DeliverFrom(StateNow, 1, name, k, Len(emissions) + 1)
     IN /\ buffers' = st.b
        /\ sinkProxies' = st.p
        /\ console' = st.c
        /\ received' = st.r
  /\ UNCHANGED << inputVars, pc, program, setupVars, session, sinkNames,
                  replicators, subscriptions, disposeLog >>

\* The driver of `name` adds a listener to its proxy: while it is being called
\* with the proxy, or at a later time of its own.
DriverSubscribe(name) ==
  /\ name \in DOMAIN sinkProxies
  /\ name \in driverListens
  /\ \/ pc.op = "setup" /\ pc.ph = "driver" /\ drivers[pc.i] = name
     \/ pc = Idle /\ program = "ok"
  /\ sinkProxies[name].ils = "none"
  /\ sinkProxies' = [sinkProxies EXCEPT
       ![name] = ProxyAdd(@, pc = Idle /\ \E s \in Sessions : session[s] = "returned")]
  /\ UNCHANGED << inputVars, pc, program, setupVars, sessionVars, received,
                  emissions, ended, console, disposeLog >>

\* The next injection of the flush of lines 159-179, looking from the start of
\* name i's next-buffer (NextInN) or error-buffer (NextInE): forEach fixes the
\* number of elements it visits when it is called.  ph = "done" after the
\* last name.
RECURSIVE NextInN(_, _, _)
RECURSIVE NextInE(_, _, _)
\* The handlers are swapped without the buffers being flushed.
MutNextInNSkipsFlush(b, names, i) == At("run", "done", 0, Len(names) + 1, 0, 0)

NextInN(b, names, i) ==
  IF i > Len(names) THEN At("run", "done", 0, i, 0, 0)
  ELSE IF Len(b[names[i]]._n) > 0
       THEN At("run", "flushN", 0, i, 1, Len(b[names[i]]._n))
       ELSE NextInE(b, names, i)

NextInE(b, names, i) ==
  IF Len(b[names[i]]._e) > 0
  THEN At("run", "flushE", 0, i, 1, Len(b[names[i]]._e))
  ELSE NextInN(b, names, i + 1)

\* After the injection at p returned: the next element of the same forEach,
\* else the next forEach.
NextAfter(b, names, p) ==
  IF p.k < p.len THEN [p EXCEPT !.k = p.k + 1]
  ELSE IF p.ph = "flushN" THEN NextInE(b, names, p.i)
  ELSE NextInN(b, names, p.i + 1)

\* Run replicateMany of session s from name index `from` up to and into the
\* injection at position p: the names before p.i have their handlers swapped;
\* at "done" buffers is set to null and run() returns the dispose function.
FlushTo(s, from, p) ==
  LET names == sinkNames[s]
      name == names[p.i]
      reps == [n \in DOMAIN replicators[s] |->
                 IF \E j \in from..(p.i - 1) : names[j] = n
                 THEN Swapped(replicators[s][n]) ELSE replicators[s][n]]
      st == IF p.ph = "flushN"
            THEN ForwardNext(StateNow, s, name, buffers[s][name]._n[p.k])
            ELSE ForwardError(StateNow, s, name, buffers[s][name]._e[p.k])
  IN /\ replicators' = [replicators EXCEPT ![s] = reps]
     /\ IF p.ph = "done"
        THEN /\ buffers' = [buffers EXCEPT ![s] = <<>>]
             /\ session' = [session EXCEPT ![s] = "returned"]
             /\ pc' = Idle
             /\ UNCHANGED << sinkProxies, console >>
        ELSE /\ sinkProxies' = st.p
             /\ console' = st.c
             /\ UNCHANGED buffers
             /\ IF st.t
                THEN /\ session' = [session EXCEPT ![s] = "threw"]
                     /\ pc' = Idle
                ELSE /\ pc' = [p EXCEPT !.s = s,
                                       !.x = (sinkProxies[name].ils = "on")]
                     /\ UNCHANGED session

\* run(), line 255, and replicateMany, lines 139-157: filter the names, make
\* the buffers and the replicators, subscribe to the first sink.
RunCall(s) ==
  /\ pc = Idle /\ program = "ok"
  /\ session[s] = "none"
  /\ \A r \in 1..(s - 1) : session[r] # "none"
  /\ RunCalls + DisposeCalls < MaxCalls
  /\ LET names == sinkNamesOf(sinks, sinkProxies)
         bufs == [n \in Range(names) |-> [_n |-> <<>>, _e |-> <<>>]]
         reps == [n \in Range(names) |-> Replicator]
     IN /\ sinkNames' = [sinkNames EXCEPT ![s] = names]
        /\ received' = [received EXCEPT ![s] = [n \in Range(names) |-> <<>>]]
        /\ IF Len(names) = 0
           THEN /\ buffers' = [buffers EXCEPT ![s] = <<>>]
                /\ replicators' = [replicators EXCEPT ![s] = reps]
                /\ session' = [session EXCEPT ![s] = "returned"]
                /\ UNCHANGED << pc, subscriptions >>
           ELSE /\ buffers' = [buffers EXCEPT ![s] = bufs]
                /\ replicators' = [replicators EXCEPT
                     ![s] = [reps EXCEPT ![names[1]] = Subscribed(@)]]
                /\ subscriptions' = [subscriptions EXCEPT ![s] = <<TRUE>>]
                /\ session' = [session EXCEPT ![s] = "running"]
                /\ pc' = At("run", "subscribe", s, 1, 0, 0)
  /\ UNCHANGED << inputVars, program, setupVars, sinkProxies, emissions, ended, console,
                  disposeLog >>

\* Line 157: a subscribe returns; the next sink is subscribed to, or, after
\* the last one, the flush begins.
SubscribeReturn ==
  /\ pc.op = "run" /\ pc.ph = "subscribe"
  /\ LET s == pc.s
         names == sinkNames[s]
     IN IF pc.i < Len(names)
        THEN /\ replicators' = [replicators EXCEPT
                  ![s][names[pc.i + 1]] = Subscribed(@)]
             /\ subscriptions' = [subscriptions EXCEPT ![s] = Append(@, TRUE)]
             /\ pc' = [pc EXCEPT !.i = pc.i + 1]
             /\ UNCHANGED << buffers, session, sinkProxies, console >>
        ELSE /\ FlushTo(s, 1, NextInN(buffers[s], names, 1))
             /\ UNCHANGED subscriptions
  /\ UNCHANGED << inputVars, program, setupVars, sinkNames, received, emissions, ended,
                  disposeLog >>

\* Lines 171-179: an injection of the flush returns; the flush goes on.
FlushReturn ==
  /\ pc.op = "run" /\ pc.ph \in {"flushN", "flushE"}
  /\ FlushTo(pc.s, pc.i, NextAfter(buffers[pc.s], sinkNames[pc.s], pc))
  /\ UNCHANGED << inputVars, program, setupVars, sinkNames, subscriptions,
                  received, emissions, ended, disposeLog >>

\* ------------------------------------------------------------ dispose
\* disposeSources, lines 188-194: the sources with a dispose member, in key
\* order.
disposeSources(srcs, keys) ==
  SelectSeq(keys, LAMBDA name : srcs[name].kind # "primitive" /\ srcs[name].dispose)

\* A dispose that leaves the subscription in place.
MutUnsubscribeKeeps(subs, j) == subs

\* s.unsubscribe(), line 183: the replicator leaves the sink's listeners.
unsubscribe(subs, j) == [subs EXCEPT ![j] = FALSE]

\* The names disposeReplication calls _c() on, line 184.
completedNames(s) == sinkNames[s]

\* disposeReplication() called before disposeSources(sources).
MutDisposeStepsReplicationFirst(s) ==
  [j \in 1..Len(subscriptions[s]) |->
     [op |-> "unsubscribe", name |-> sinkNames[s][j], j |-> j]]
  \o [j \in 1..Len(completedNames(s)) |->
     [op |-> "complete", name |-> completedNames(s)[j], j |-> j]]
  \o [j \in 1..Len(disposeSources(sources, drivers)) |->
     [op |-> "teardown", name |-> disposeSources(sources, drivers)[j], j |-> j]]

\* The external calls one call of the dispose function of session s makes, in
\* order: lines 257-258, 183, 184.
DisposeSteps(s) ==
  [j \in 1..Len(disposeSources(sources, drivers)) |->
     [op |-> "teardown", name |-> disposeSources(sources, drivers)[j], j |-> j]]
  \o [j \in 1..Len(subscriptions[s]) |->
     [op |-> "unsubscribe", name |-> sinkNames[s][j], j |-> j]]
  \o [j \in 1..Len(completedNames(s)) |->
     [op |-> "complete", name |-> completedNames(s)[j], j |-> j]]

Logged(c, s, op, name) == [c |-> c, s |-> s, op |-> op, name |-> name]

\* Dispose call c of session s goes from its step i - 1 into its step i, or
\* returns after the last step.  log is disposeLog so far.
DisposeTo(s, c, i, log) ==
  LET steps == DisposeSteps(s)
      step == steps[i]
      st == Complete(StateNow, s, step.name)
  IN IF i > Len(steps)
     THEN /\ disposeLog' = Append(log, Logged(c, s, "return", ""))
          /\ pc' = Idle
          /\ UNCHANGED << subscriptions, sinkProxies >>
     ELSE IF step.op = "teardown"
     THEN /\ disposeLog' = Append(log, Logged(c, s, "teardown", step.name))
          /\ pc' = At("dispose", "teardown", s, i, c, 0)
          /\ UNCHANGED << subscriptions, sinkProxies >>
     ELSE IF step.op = "unsubscribe"
     THEN /\ disposeLog' = Append(log, Logged(c, s, "unsubscribe", step.name))
          /\ subscriptions' = [subscriptions EXCEPT ![s] = unsubscribe(@, step.j)]
          /\ pc' = [At("dispose", "unsubscribe", s, i, c, 0) EXCEPT !.x = FALSE]
          /\ UNCHANGED sinkProxies
     ELSE IF st.t
     THEN /\ disposeLog' = Append(log, Logged(c, s, "throw", step.name))
          /\ pc' = Idle
          /\ UNCHANGED << subscriptions, sinkProxies >>
     ELSE /\ disposeLog' = Append(log, Logged(c, s, "complete", step.name))
          /\ sinkProxies' = st.p
          /\ pc' = [At("dispose", "complete", s, i, c, 0)
                    EXCEPT !.x = (sinkProxies[step.name].ils = "on")]
          /\ UNCHANGED subscriptions

\* dispose(), lines 256-259: the function run() returned is called.
DisposeCall(s) ==
  /\ pc = Idle
  /\ session[s] = "returned"
  /\ RunCalls + DisposeCalls < MaxCalls
  /\ DisposeTo(s, DisposeCalls + 1, 1,
               Append(disposeLog, Logged(DisposeCalls + 1, s, "dispose", "")))
  /\ UNCHANGED << inputVars, program, setupVars, session, sinkNames, buffers,
                  replicators, received, emissions, ended, console >>

\* An external call made by dispose returns; dispose goes on.
DisposeReturn ==
  /\ pc.op = "dispose"
  /\ DisposeTo(pc.s, pc.k, pc.i + 1, disposeLog)
  /\ UNCHANGED << inputVars, program, setupVars, session, sinkNames, buffers,
                  replicators, received, emissions, ended, console >>

\* ------------------------------------------------------ specification
Next ==
  \/ Setup
  \/ DriverReturn
  \/ DriverThrow
  \/ MainReturn
  \/ \E name \in Range(mainSinks), k \in EventKinds : SinkEmit(name, k)
  \/ \E name \in DOMAIN sinkProxies : DriverSubscribe(name)
  \/ \E s \in Sessions : RunCall(s)
  \/ SubscribeReturn
  \/ FlushReturn
  \/ \E s \in Sessions : DisposeCall(s)
  \/ DisposeReturn

Spec == Init /\ [][Next]_vars

\* ============================================================== claims
\* The values of a sequence of events, and those of its events of kind k.
Vals(q) == [j \in 1..Len(q) |-> q[j].v]
ValuesOf(q, k) == Vals(SelectSeq(q, LAMBDA e : e.k = k))

\* The values session s injected into the k-injection of proxy name, in order.
Injected(name, s, k) ==
  Vals(SelectSeq(sinkProxies[name].log, LAMBDA e : e.k = k /\ e.s = s))

\* The values the replicator of session s for name appended to its buffer.
Buffered(s, name) ==
  Vals(SelectSeq(received[s][name], LAMBDA e : e.k = "n" /\ e.h = "buffer"))

\* The names session s replicates that are in both collections.
Replicated(s) == Range(sinkNames[s]) \cap DOMAIN sinkProxies

IsPrefix(a, b) == Len(a) <= Len(b) /\ SubSeq(b, 1, Len(a)) = a

Count(q, v) == Cardinality({ j \in 1..Len(q) : q[j] = v })

\* The driver of name added its listener after a run() had returned.
LateListener(name) ==
  sinkProxies[name].ils # "none" /\ sinkProxies[name].late

\* C1: once run() has returned, the values a sink handed to its replicator
\* while subscribed are the values pushed into the proxy's next-injection, in
\* the same order, whenever they were emitted.
C1_EveryValueForwardedInOrder ==
  \A s \in Sessions :
    session[s] = "returned" =>
      \A name \in Replicated(s) :
        ValuesOf(received[s][name], "n") = Injected(name, s, "n")

\* C2 as stated, in the case most favourable to it (nothing but values was
\* injected, and every value the sink pushed was injected): a driver that
\* subscribes after run() returned is handed every value the sink pushed
\* before the handlers were swapped, in order.
C2_LateSubscriberGetsEveryBufferedValue ==
  \A name \in Replicated(1) :
    LET p == sinkProxies[name]
    IN ( /\ LateListener(name)
         /\ session[1] = "returned"
         /\ \A j \in 1..Len(p.log) : p.log[j].k = "n"
         /\ ValuesOf(received[1][name], "n") = Injected(name, 1, "n") )
       => IsPrefix(Buffered(1, name), ValuesOf(p.seen, "n"))

\* What a listener added after `at` injections is handed: the value injected
\* last, unless an error or completion was injected after it, then every
\* later injection up to the first error or completion.
RECURSIVE UpToEnd(_)
UpToEnd(q) ==
  IF q = <<>> THEN <<>>
  ELSE IF Head(q).k = "n" THEN <<Head(q)>> \o UpToEnd(Tail(q))
  ELSE <<Head(q)>>

Event(e) == [k |-> e.k, v |-> e.v]

HandedTo(p) ==
  LET replay == IF p.at > 0 /\ p.log[p.at].k = "n"
                THEN <<Event(p.log[p.at])>> ELSE <<>>
      later == UpToEnd(SubSeq(p.log, p.at + 1, Len(p.log)))
  IN replay \o [j \in 1..Len(later) |-> Event(later[j])]

\* C2, amended: a driver that subscribes to its proxy after run() returned is
\* handed, of everything injected before (the flushed buffer included), the
\* most recently injected value alone, and only if no error or completion was
\* injected after it; then it is handed the later injections in order.
C2_LateSubscriberGetsLastInjectedValue ==
  \A name \in DOMAIN sinkProxies :
    LateListener(name) => sinkProxies[name].seen = HandedTo(sinkProxies[name])

\* C2 witness: two values were buffered and flushed, and the driver that
\* subscribed after run() was handed the second alone.
C2_Witness ==
  \E name \in Replicated(1) :
    /\ LateListener(name)
    /\ Len(Buffered(1, name)) = 2
    /\ Injected(name, 1, "n") = Buffered(1, name)
    /\ sinkProxies[name].at = 2
    /\ sinkProxies[name].seen = <<[k |-> "n", v |-> Buffered(1, name)[2]]>>

BufferedBy(s, e) ==
  /\ e.name \in DOMAIN received[s]
  /\ \E j \in 1..Len(received[s][e.name]) :
       received[s][e.name][j] = [k |-> e.k, v |-> e.v, h |-> "buffer"]

C4_EveryValueInjectedExactlyOnce ==
  (RunCalls = 1 /\ session[1] = "returned") =>
    \A name \in Replicated(1) :
      \A v \in Range(ValuesOf(received[1][name], "n")) :
        Count(Injected(name, 1, "n"), v) = 1

\* C5: no proxy has had its completion injection called before a dispose
\* function was called; a sink completing does not complete its proxy.
C5_NoCompletionBeforeDispose ==
  \A name \in DOMAIN sinkProxies :
    (\E j \in 1..Len(sinkProxies[name].log) : sinkProxies[name].log[j].k = "c")
      => DisposeCalls > 0

\* C5 witness: a sink completed while its replicator was subscribed, run()
\* has returned, and no dispose function was called.
C5_Witness ==
  /\ DisposeCalls = 0
  /\ \E s \in Sessions :
       /\ session[s] = "returned"
       /\ \E name \in Replicated(s) :
            \E j \in 1..Len(received[s][name]) : received[s][name][j].k = "c"

\* C6: once the one dispose call has returned, every proxy made at setup has
\* had its completion injection called exactly once.
C6_EveryProxyCompletedOnce ==
  ( /\ DisposeCalls = 1
    /\ \E j \in 1..Len(disposeLog) : disposeLog[j].op = "return" )
  => \A name \in DOMAIN sinkProxies :
       Len(SelectSeq(sinkProxies[name].log, LAMBDA e : e.k = "c")) = 1

\* C7: an event a sink emits after the dispose function of a session has
\* ended is not handed to that session's replicator, not appended to its
\* buffers, and not pushed by that session into the next- or error-injection
\* of any proxy.
C7_NothingForwardedAfterDispose ==
  \A j \in 1..Len(emissions) :
    LET e == emissions[j]
    IN \A s \in e.disposed :
         /\ e.name \in DOMAIN received[s] =>
              e.v \notin Range(Vals(received[s][e.name]))
         /\ e.name \in DOMAIN buffers[s] =>
              /\ e.v \notin Range(buffers[s][e.name]._n)
              /\ e.v \notin Range(buffers[s][e.name]._e)
         /\ \A name \in DOMAIN sinkProxies :
              /\ e.v \notin Range(Injected(name, s, "n"))
              /\ e.v \notin Range(Injected(name, s, "e"))

\* C7 witness: a replicated sink emitted a value or an error after the dispose
\* function of the session had ended.
C7_Witness ==
  \E j \in 1..Len(emissions) :
    /\ emissions[j].k \in {"n", "e"}
    /\ \E s \in emissions[j].disposed : emissions[j].name \in Replicated(s)

\* C8: run() replicates exactly the sink names that are keys of both the
\* sink collection and the proxy collection, and a sink of another name
\* causes no error.
C8_OnlyCommonNamesReplicated ==
  /\ \A s \in Sessions :
       session[s] # "none" =>
         /\ Range(sinkNames[s]) = Range(sinks) \cap DOMAIN sinkProxies
         /\ session[s] # "threw"
  /\ \A j \in 1..Len(disposeLog) : disposeLog[j].op # "throw"

\* C9: a setup() that returned made one proxy per registry name and none for
\* another name, no two names share a proxy, each driver was called exactly
\* once, in registry order, with its own name and its own proxy, and sources
\* has exactly one entry per registry name.
C9_OneProxyAndSourcePerDriver ==
  program = "ok" =>
    /\ Len(drivers) > 0
    /\ DOMAIN sinkProxies = Range(drivers)
    /\ \A a, b \in DOMAIN sinkProxies :
         sinkProxies[a].id = sinkProxies[b].id => a = b
    /\ driverCalls = [j \in 1..Len(drivers) |->
                        [name |-> drivers[j], proxy |-> sinkProxies[drivers[j]].id]]
    /\ DOMAIN sources = Range(drivers)

\* C9 witness: setup() returned for a registry of two drivers.
C9_Witness == program = "ok" /\ Len(drivers) = 2

\* The external calls dispose call c made so far, in order.
CallsOf(c) ==
  SelectSeq(disposeLog,
            LAMBDA e : e.c = c /\ e.op \in {"teardown", "unsubscribe", "complete", "throw"})

Rank(op) == IF op = "teardown" THEN 1 ELSE IF op = "unsubscribe" THEN 2 ELSE 3

\* C10: in every dispose call the teardown of every source that has one comes
\* before any unsubscribe, and every subscription of the session is
\* unsubscribed before any proxy is completed.
C10_DisposeOrder ==
  \A c \in 1..DisposeCalls :
    LET q == CallsOf(c)
        s == SelectSeq(disposeLog, LAMBDA e : e.c = c)[1].s
    IN /\ \A i, j \in 1..Len(q) : i < j => Rank(q[i].op) <= Rank(q[j].op)
       /\ (\E j \in 1..Len(q) : Rank(q[j].op) >= 2) =>
            [j \in 1..Len(disposeSources(sources, drivers)) |->
               disposeSources(sources, drivers)[j]]
            = [j \in 1..Len(SelectSeq(q, LAMBDA e : e.op = "teardown")) |->
                 SelectSeq(q, LAMBDA e : e.op = "teardown")[j].name]
       /\ (\E j \in 1..Len(q) : Rank(q[j].op) = 3) =>
            Len(SelectSeq(q, LAMBDA e : e.op = "unsubscribe")) = Len(subscriptions[s])

\* C10 witness: a dispose call that tore down a source, unsubscribed two
\* subscriptions and completed a proxy.
C10_Witness ==
  \E c \in 1..DisposeCalls :
    /\ \E j \in 1..Len(CallsOf(c)) : CallsOf(c)[j].op = "teardown"
    /\ Len(SelectSeq(CallsOf(c), LAMBDA e : e.op = "unsubscribe")) = 2
    /\ \E j \in 1..Len(CallsOf(c)) : CallsOf(c)[j].op = "complete"

\* The errors the replicator of session s for name was handed, in order.
ErrorsOf(s, name) == ValuesOf(received[s][name], "e")

\* C11: once run() has ended, every error a sink handed to the replicator of
\* a name in both collections has been written by logToConsoleError and
\* pushed into the error-injection of the proxy of that name.
C11_EveryErrorLoggedAndInjected ==
  \A s \in Sessions :
    session[s] \in {"returned", "threw"} =>
      \A name \in Replicated(s) :
        \A v \in Range(ErrorsOf(s, name)) :
          /\ v \in Range(console)
          /\ v \in Range(Injected(name, s, "e"))

\* Which of the three argument checks of setup() fails first, "none" if none.
ArgumentError ==
  IF ~mainArg THEN "main"
  ELSE IF driversArg # "object" THEN "drivers-type"
  ELSE IF isObjectEmpty(drivers) THEN "drivers-empty"
  ELSE "none"

\* C12: when main is not callable, the registry is not a non-null object, or
\* the registry has no entry, setup() throws (and returns no program) with no
\* proxy made, no driver and no main called, and nothing ever run.
C12_InvalidArgumentsThrowBeforeAnything ==
  ArgumentError # "none" =>
    /\ program \in {"none", "threw"}
    /\ program = "threw" => setupError = ArgumentError
    /\ sinkProxies = <<>> /\ driverCalls = <<>> /\ mainCalls = 0
    /\ sources = <<>> /\ sinks = <<>>
    /\ RunCalls = 0 /\ emissions = <<>> /\ pc = Idle

\* C12 witness: setup() was called with a callable main and a registry of no
\* entries, and threw.
C12_Witness ==
  mainArg /\ driversArg = "object" /\ drivers = <<>> /\ program = "threw"

\* C13: once a driver has thrown during setup(), setup() has thrown: the
\* drivers called are those up to the one that threw, main was not called, no
\* sources, sinks or run() were returned, and no replication is ever started.
C13_DriverExceptionAbortsSetup ==
  setupError = "driver" =>
    /\ program = "threw" /\ pc = Idle
    /\ Len(driverCalls) = Cardinality(DOMAIN sources) + 1
    /\ \A j \in 1..Len(driverCalls) : driverCalls[j].name = drivers[j]
    /\ mainCalls = 0 /\ sinks = <<>>
    /\ RunCalls = 0 /\ DisposeCalls = 0
    /\ \A name \in DOMAIN sinkProxies : sinkProxies[name].log = <<>>

\* C13 witness: the first of two drivers threw; the second was never called.
C13_Witness ==
  setupError = "driver" /\ Len(drivers) = 2 /\ Len(driverCalls) = 1

\* The values and errors the replicator of session s for name appended to its
\* buffers, in the order the sink emitted them.
BufferedEvents(s, name) ==
  LET q == SelectSeq(received[s][name],
                     LAMBDA e : e.h = "buffer" /\ e.k \in {"n", "e"})
  IN [j \in 1..Len(q) |-> Event(q[j])]

\* The values and errors session s pushed into proxy name, in order.
InjectedEvents(name, s) ==
  LET q == SelectSeq(sinkProxies[name].log,
                     LAMBDA e : e.s = s /\ e.k \in {"n", "e"})
  IN [j \in 1..Len(q) |-> Event(q[j])]

\* C14: once run() has returned, the values and errors a sink emitted while
\* its replicator was buffering are, in that order, the first events run()
\* pushed into the proxy of the name.
C14_BufferedEventsInjectedInOrder ==
  \A s \in Sessions :
    session[s] = "returned" =>
      \A name \in Replicated(s) :
        IsPrefix(BufferedEvents(s, name), InjectedEvents(name, s))

\* run() of session pc.s is between the start of its first buffer flush and
\* its last handler swap: it is inside an injection of the flush.
InTransition == pc.op = "run" /\ pc.ph \in {"flushN", "flushE"}

\* C15: while run() is between the start of its first flush and its last
\* handler swap, no next or error handler of one of its replicators is
\* called: no step adds a value or an error to what they were handed.
C15_NoEmissionDuringTransition ==
  [][ \A s \in Sessions :
        (InTransition /\ pc.s = s) =>
          \A name \in DOMAIN received[s] :
            /\ ValuesOf(received[s][name], "n")' = ValuesOf(received[s][name], "n")
            /\ ValuesOf(received[s][name], "e")' = ValuesOf(received[s][name], "e")
    ]_vars

\* Session s has begun to flush or to swap: a handler is swapped, or a buffer
\* was flushed into a proxy.
FlushBegun(s) ==
  \/ \E name \in DOMAIN replicators[s] : replicators[s][name].next = "forward"
  \/ \E name \in DOMAIN sinkProxies :
       \E j \in 1..Len(sinkProxies[name].log) : sinkProxies[name].log[j].s = s

\* C16: no buffer of a run() is flushed and no handler swapped before every
\* name of sinkNames has its subscription; and a value the sink of a name in
\* both collections emitted to its replicator while run() was subscribing to
\* another sink was buffered and, once run() has ended, has been pushed into
\* the proxy of the name.
C16_EmissionDuringSubscriptionIsFlushed ==
  /\ \A s \in Sessions :
       FlushBegun(s) =>
         /\ Len(subscriptions[s]) = Len(sinkNames[s])
         /\ \A name \in DOMAIN replicators[s] : replicators[s][name]._n # "unset"
  /\ \A j \in 1..Len(emissions) :
       LET e == emissions[j]
           s == e.run
       IN (s > 0 /\ e.k = "n" /\ e.name \in Replicated(s)
           /\ e.subscribing \notin {"", e.name}
           /\ e.v \in Range(Vals(received[s][e.name]))) =>
            /\ BufferedBy(s, e)
            /\ session[s] \in {"returned", "threw"} =>
                 e.v \in Range(Injected(e.name, s, "n"))

\* The state of the j-th name of session s: 1 Buffering (subscribed, the
\* handlers the sink calls append to the buffer), 2 Forwarding (they write
\* into the proxy), 3 Disposed (unsubscribed).
StateOfName(s, j) ==
  IF ~subscriptions[s][j] THEN 3
  ELSE IF replicators[s][sinkNames[s][j]]._n = "forward" THEN 2
  ELSE 1

\* In what the replicator of session s for name was handed, no event was
\* appended to a buffer after one was written into the proxy.
NoBufferingAfterForwarding(s, name) ==
  \A i, j \in 1..Len(received[s][name]) :
    (i < j /\ received[s][name][i].h = "forward") =>
      received[s][name][j].h # "buffer"

\* C17: in a session every name goes Buffering, Forwarding, Disposed, one
\* state at a time and never back; the swap replaces all four handlers at
\* once; once run() has returned every name forwards and the buffers are
\* released; no event is buffered after one was forwarded; and an event
\* emitted after the session's dispose is handed to no replicator of it.
C17_BufferingForwardingDisposed ==
  /\ [] \A s \in Sessions :
          /\ \A name \in DOMAIN replicators[s] :
               LET r == replicators[s][name]
               IN /\ r._n = "forward" <=> r._e = "forward"
                  /\ r._n = "forward" <=> r.next = "forward"
                  /\ r._n = "forward" <=> r.error = "forward"
                  /\ r._n = "forward" => r._c = "noop"
          /\ \A name \in DOMAIN received[s] : NoBufferingAfterForwarding(s, name)
          /\ session[s] = "returned" =>
               /\ buffers[s] = <<>>
               /\ \A name \in DOMAIN replicators[s] :
                    replicators[s][name]._n = "forward"
          /\ \A j \in 1..Len(emissions) :
               (s \in emissions[j].disposed
                /\ emissions[j].name \in DOMAIN received[s]) =>
                 emissions[j].v \notin Range(Vals(received[s][emissions[j].name]))
  /\ [][ \A s \in Sessions :
           \A j \in 1..Len(subscriptions[s]) :
             \/ StateOfName(s, j)' = StateOfName(s, j)
             \/ StateOfName(s, j)' = StateOfName(s, j) + 1 ]_vars

\* C17 witness: a name of both collections buffered one value, forwarded the
\* next, and was then disposed.
C17_Witness ==
  \E s \in Sessions :
    \E j \in 1..Len(subscriptions[s]) :
      LET name == sinkNames[s][j]
      IN /\ name \in Replicated(s)
         /\ StateOfName(s, j) = 3
         /\ Len(received[s][name]) = 2
         /\ received[s][name][1].h = "buffer"
         /\ received[s][name][2].h = "forward"

\* C18: a step in which a sink emits an error leaves the buffers, the
\* handlers, the subscriptions and the proxy of every other name as they
\* were; and a value another sink of a name in both collections emitted to
\* its replicator after that error has, once run() has ended, been pushed
\* into its own proxy.
C18_ErrorAffectsOnlyItsName ==
  /\ [][ (Len(emissions') = Len(emissions) + 1
          /\ emissions'[Len(emissions')].k = "e") =>
           \A s \in Sessions : \A m \in Range(sinkNames[s]) :
             m # emissions'[Len(emissions')].name =>
               /\ replicators'[s][m] = replicators[s][m]
               /\ subscriptions'[s] = subscriptions[s]
               /\ received'[s][m] = received[s][m]
               /\ m \in DOMAIN buffers[s] =>
                    m \in DOMAIN buffers'[s] /\ buffers'[s][m] = buffers[s][m]
               /\ m \in DOMAIN sinkProxies => sinkProxies'[m] = sinkProxies[m]
       ]_vars
  /\ [] \A i, j \in 1..Len(emissions) :
          LET g == emissions[i]
              f == emissions[j]
          IN (i < j /\ g.k = "e" /\ f.k = "n" /\ f.name # g.name) =>
               \A s \in Sessions :
                 ( /\ session[s] \in {"returned", "threw"}
                   /\ f.name \in Replicated(s)
                   /\ f.v \in Range(Vals(received[s][f.name])) )
                 => f.v \in Range(Injected(f.name, s, "n"))

\* The number of times value v was pushed into the next-injection of proxy
\* name, by any session.
TimesInjected(name, v) ==
  Cardinality({ j \in 1..Len(sinkProxies[name].log) :
                  sinkProxies[name].log[j].k = "n" /\ sinkProxies[name].log[j].v = v })

\* No call of the dispose function of session s was made.
NeverDisposed(s) == \A j \in 1..Len(disposeLog) : disposeLog[j].s # s

\* C19: after run() was called twice, every sink of a name in both
\* collections has a subscription of each of the two sessions; a value it
\* emits after the two calls, with no dispose function called, has been pushed
\* into its proxy twice; and the subscriptions of a session whose dispose
\* function was not called stay in place when that of the other is called.
C19_TwoRunsTwoSessions ==
  ( /\ RunCalls = 2
    /\ session[1] \in {"returned", "threw"}
    /\ session[2] \in {"returned", "threw"} )
  => /\ \A s \in {1, 2} :
          /\ Replicated(s) = Range(sinks) \cap DOMAIN sinkProxies
          /\ NeverDisposed(s) => \A name \in Replicated(s) : Active(s, name)
     /\ DisposeCalls = 0 =>
          \A j \in 1..Len(emissions) :
            LET e == emissions[j]
            IN ( /\ e.k = "n" /\ e.run = 0
                 /\ e.name \in Replicated(2)
                 /\ e.v \in Range(Vals(received[2][e.name])) )
               => TimesInjected(e.name, e.v) = 2

\* The entries of disposeLog of kind op made by the dispose function of
\* session s, for name (any name if name is "").
DisposeEntries(s, ops, name) ==
  SelectSeq(disposeLog,
            LAMBDA e : e.s = s /\ e.op \in ops /\ (name = "" \/ e.name = name))

\* The times session s called the completion injection of proxy name.
TimesCompleted(s, name) ==
  Len(SelectSeq(sinkProxies[name].log, LAMBDA e : e.k = "c" /\ e.s = s))

\* C20: when n calls of the dispose function of a session have been made and
\* have ended, the teardown of every source that has one was invoked n times
\* and the completion injection of the proxy of every name in both collections
\* was called n times; and if the first call returned, so did the later ones.
C20_EveryDisposeCallActsAgain ==
  \A s \in Sessions :
    LET n == Len(DisposeEntries(s, {"dispose"}, ""))
    IN (n > 0 /\ Len(DisposeEntries(s, {"return", "throw"}, "")) = n) =>
         /\ \A name \in Range(disposeSources(sources, drivers)) :
              Len(DisposeEntries(s, {"teardown"}, name)) = n
         /\ \A name \in Replicated(s) : TimesCompleted(s, name) = n
         /\ \A i, j \in 1..Len(DisposeEntries(s, {"return", "throw"}, "")) :
              (i < j /\ DisposeEntries(s, {"return", "throw"}, "")[i].op = "return")
                => DisposeEntries(s, {"return", "throw"}, "")[j].op = "return"

====
